---- MODULE Spec2Model ----
(***************************************************************************)
(* Model of the caddy-anubis middleware (caddy_anubis.go).                 *)
(*                                                                         *)
(* Two specifications:                                                     *)
(*   Spec         the middleware serving concurrent requests: the shared   *)
(*                fields m.AnubisServers, m.Next and m.Target, and each    *)
(*                request's position in ServeHTTP / CreateAnubisServer /   *)
(*                the Next closure, one action per statement that touches  *)
(*                shared memory (Caddy runs ServeHTTP on one goroutine per *)
(*                request and the code takes no lock).                     *)
(*   SpecResolve  the pure host resolver (splitHostPort,                   *)
(*                splitSubDomainDomain, DomainFromRequest) applied to      *)
(*                every byte string up to MaxHostLen over Alphabet.        *)
(*                                                                         *)
(* Strings are sequences of byte codes; indices and slices follow Go       *)
(* (0-based, half-open).                                                   *)
(***************************************************************************)
EXTENDS Integers, Sequences, FiniteSets, TLC

VARIABLES
    AnubisServers,  \* m.AnubisServers: NilMap, or a map domain -> server id / NilServer
    mNext,          \* m.Next: the handler field shared by all requests
    Target,         \* m.Target: NIL or the configured redirect URL
    servers,        \* the outcome of each request's call of libanubis.New
    pc,             \* each request's position in the code
    host,           \* r.Host of each request
    next,           \* the `next` handler passed to ServeHTTP with each request
    delegated,      \* the server whose ServeHTTP got the request (line 169)
    outcome,        \* what the engine / Next closure did with the request
    ret,            \* what ServeHTTP returned for the request
    overlapped,     \* history: some request arrived while another was in flight
    fatal,          \* the Go runtime aborted the process (concurrent map access)
    rIn,            \* SpecResolve: the input r.Host
    rStage,         \* SpecResolve: how far DomainFromRequest has run, or "panic"
    rHost,          \* SpecResolve: host returned by splitHostPort
    rPort,          \* SpecResolve: port returned by splitHostPort
    rSub,           \* SpecResolve: subdomain returned by splitSubDomainDomain
    rDomain         \* SpecResolve: domain returned by DomainFromRequest

mvars == <<AnubisServers, mNext, Target, servers, pc, host, next,
           delegated, outcome, ret, overlapped, fatal>>
rvars == <<rIn, rStage, rHost, rPort, rSub, rDomain>>
vars == <<AnubisServers, mNext, Target, servers, pc, host, next,
          delegated, outcome, ret, overlapped, fatal,
          rIn, rStage, rHost, rPort, rSub, rDomain>>

----------------------------------------------------------------------------
(* Bounds *)

NumRequests == 2
MaxHostLen == 7

----------------------------------------------------------------------------
(* Bytes and strings *)

Colon == 58
Dot == 46
Digit0 == 48
Digit9 == 57
LBracket == 91
RBracket == 93
StatusTemporaryRedirect == 307

\* '.', '1', ':', '[', ']', 'a'
Alphabet == {46, 49, 58, 91, 93, 97}

NIL == "nil"
\* a nil *libanubis.Server (servers are named from 1)
NilServer == 0

\* a nil map: no storage at all
NilMap == <<>>

\* every string of exactly k bytes of Alphabet
StringsOfLen(k) == [1 .. k -> Alphabet]

\* Go's s[lo:hi]
Slice(s, lo, hi) == SubSeq(s, lo + 1, hi)

\* strings.LastIndexByte
LastIndexByte(s, c) ==
    LET hits == {i \in 0 .. Len(s) - 1 : s[i + 1] = c}
    IN  IF hits = {} THEN -1 ELSE CHOOSE i \in hits : \A j \in hits : j <= i

HasPrefix(s, p) == Len(s) >= Len(p) /\ Slice(s, 0, Len(p)) = p
HasSuffix(s, p) == Len(s) >= Len(p) /\ Slice(s, Len(s) - Len(p), Len(s)) = p

----------------------------------------------------------------------------
(* The host resolver *)

\* validOptionalPort asking for at least one digit after the colon
validOptionalPort_NeedsDigit(port) ==
    IF port = <<>> THEN TRUE
    ELSE IF port[1] # Colon THEN FALSE
    ELSE Len(port) >= 2 /\ \A i \in 2 .. Len(port) : ~(port[i] < Digit0 \/ port[i] > Digit9)

validOptionalPort(port) ==
    IF port = <<>> THEN TRUE
    ELSE IF port[1] # Colon THEN FALSE
    ELSE \A i \in 2 .. Len(port) : ~(port[i] < Digit0 \/ port[i] > Digit9)

\* splitHostPort cutting at colon+1: the colon stays on the host
splitHostPort_KeepColon(hostPort) ==
    LET colon == LastIndexByte(hostPort, Colon)
        cut == colon # -1 /\ validOptionalPort(Slice(hostPort, colon, Len(hostPort)))
        h1 == IF cut THEN Slice(hostPort, 0, colon + 1) ELSE hostPort
        p1 == IF cut THEN Slice(hostPort, colon + 1, Len(hostPort)) ELSE <<>>
        h2 == IF HasPrefix(h1, <<LBracket>>) /\ HasSuffix(h1, <<RBracket>>)
              THEN Slice(h1, 1, Len(h1) - 1) ELSE h1
    IN  [host |-> h2, port |-> p1]

\* splitHostPort unwrapping the brackets before it strips the port
splitHostPort_BracketsFirst(hostPort) ==
    LET h0 == IF HasPrefix(hostPort, <<LBracket>>) /\ HasSuffix(hostPort, <<RBracket>>)
              THEN Slice(hostPort, 1, Len(hostPort) - 1) ELSE hostPort
        colon == LastIndexByte(h0, Colon)
        cut == colon # -1 /\ validOptionalPort(Slice(h0, colon, Len(h0)))
    IN  [host |-> IF cut THEN Slice(h0, 0, colon) ELSE h0,
         port |-> IF cut THEN Slice(h0, colon + 1, Len(h0)) ELSE <<>>]

splitHostPort(hostPort) ==
    LET colon == LastIndexByte(hostPort, Colon)
        cut == colon # -1 /\ validOptionalPort(Slice(hostPort, colon, Len(hostPort)))
        h1 == IF cut THEN Slice(hostPort, 0, colon) ELSE hostPort
        p1 == IF cut THEN Slice(hostPort, colon + 1, Len(hostPort)) ELSE <<>>
        h2 == IF HasPrefix(h1, <<LBracket>>) /\ HasSuffix(h1, <<RBracket>>)
              THEN Slice(h1, 1, Len(h1) - 1) ELSE h1
    IN  [host |-> h2, port |-> p1]

\* splitSubDomainDomain slicing at subdomainPeriod: the dot stays on the domain
splitSubDomainDomain_KeepDot(h) ==
    LET tldPeriod == LastIndexByte(h, Dot)
        withoutTLD == Slice(h, 0, tldPeriod)
        subdomainPeriod == LastIndexByte(withoutTLD, Dot)
    IN  IF tldPeriod # -1 /\ subdomainPeriod # -1
        THEN [subdomain |-> Slice(h, 0, subdomainPeriod),
              domain |-> Slice(h, subdomainPeriod, Len(h))]
        ELSE [subdomain |-> <<>>, domain |-> h]

\* splitSubDomainDomain that never looks for the second dot
splitSubDomainDomain_WholeHost(h) ==
    [subdomain |-> <<>>, domain |-> h]

splitSubDomainDomain(h) ==
    LET tldPeriod == LastIndexByte(h, Dot)
        withoutTLD == Slice(h, 0, tldPeriod)
        subdomainPeriod == LastIndexByte(withoutTLD, Dot)
    IN  IF tldPeriod # -1 /\ subdomainPeriod # -1
        THEN [subdomain |-> Slice(h, 0, subdomainPeriod),
              domain |-> Slice(h, subdomainPeriod + 1, Len(h))]
        ELSE [subdomain |-> <<>>, domain |-> h]

\* a slice expression s[lo:hi] panics unless 0 <= lo <= hi <= len(s)
InRange(s, lo, hi) == 0 <= lo /\ lo <= hi /\ hi <= Len(s)

\* every slice expression splitHostPort evaluates on hostPort is in range
splitHostPortInRange(hostPort) ==
    LET colon == LastIndexByte(hostPort, Colon)
        cut == colon # -1 /\ validOptionalPort(Slice(hostPort, colon, Len(hostPort)))
        h1 == IF cut THEN Slice(hostPort, 0, colon) ELSE hostPort
    IN  /\ colon # -1 => InRange(hostPort, colon, Len(hostPort))
        /\ cut => (InRange(hostPort, 0, colon) /\ InRange(hostPort, colon + 1, Len(hostPort)))
        /\ (HasPrefix(h1, <<LBracket>>) /\ HasSuffix(h1, <<RBracket>>))
              => InRange(h1, 1, Len(h1) - 1)

\* every slice expression splitSubDomainDomain evaluates on h is in range
splitSubDomainDomainInRange(h) ==
    LET tldPeriod == LastIndexByte(h, Dot)
        withoutTLD == Slice(h, 0, tldPeriod)
        subdomainPeriod == LastIndexByte(withoutTLD, Dot)
    IN  /\ tldPeriod # -1 => InRange(h, 0, tldPeriod)
        /\ (tldPeriod # -1 /\ subdomainPeriod # -1)
              => (InRange(h, 0, subdomainPeriod) /\ InRange(h, subdomainPeriod + 1, Len(h)))

DomainFromRequest(rHostField) ==
    splitSubDomainDomain(splitHostPort(rHostField).host).domain

----------------------------------------------------------------------------
(* The middleware under concurrent requests *)

Requests == 1 .. NumRequests

\* "a.a.a", "a.a:1", "[::1]:1"
Hosts == {<<97, 46, 97, 46, 97>>, <<97, 46, 97, 58, 49>>, <<91, 58, 58, 49, 93, 58, 49>>}

Handlers == {"next1", "next2"}

TargetURL == "https://qwant.com"

Domains == {DomainFromRequest(h) : h \in Hosts}

\* make(map[string]*libanubis.Server): every key reads as nil
EmptyMap == [d \in Domains |-> NilServer]

NoOutcome == [passed |-> FALSE, kind |-> "none", location |-> NIL, status |-> 0,
              handler |-> NIL, err |-> FALSE]

\* the local `domain` of ServeHTTP and of CreateAnubisServer for request r
domain(r) == DomainFromRequest(host[r])

\* the local anubisServer of CreateAnubisServer for request r: the object
\* libanubis.New returned to it, named by the request that constructed it
anubisServer(r) == r

\* CookieDomain_ set from the host instead of the apex domain
CookieDomain_Host(s) == splitHostPort(host[s]).host

\* line 121: the Options.CookieDomain server s was constructed with, the
\* local domain of the request that constructed it
CookieDomain(s) == domain(s)

InFlight(r) == pc[r] \notin {"idle", "done"}

Init ==
    /\ AnubisServers = NilMap
    /\ mNext = NIL
    /\ Target \in {NIL, TargetURL}
    /\ servers = [r \in Requests |-> "none"]
    /\ pc = [r \in Requests |-> "idle"]
    /\ host = [r \in Requests |-> <<>>]
    /\ next = [r \in Requests |-> NIL]
    /\ delegated = [r \in Requests |-> NilServer]
    /\ outcome = [r \in Requests |-> NoOutcome]
    /\ ret = [r \in Requests |-> "none"]
    /\ overlapped = FALSE
    /\ fatal = FALSE
    /\ rIn = <<>>
    /\ rStage = "off"
    /\ rHost = <<>>
    /\ rPort = <<>>
    /\ rSub = <<>>
    /\ rDomain = <<>>

\* ServeHTTP is entered with request r (r.Host = h) and handler n: lines
\* 159-160 and 94-96, up to the test m.AnubisServers == nil.  Requests are
\* numbered in the order they arrive, and the handlers are named so that the
\* first request's is "next1" (both only fix names).
Arrive(r, h, n) ==
    /\ ~fatal
    /\ pc[r] = "idle"
    /\ \A q \in Requests : q < r => pc[q] # "idle"
    /\ r = 1 => n = "next1"
    /\ host' = [host EXCEPT ![r] = h]
    /\ next' = [next EXCEPT ![r] = n]
    /\ pc' = [pc EXCEPT ![r] = IF AnubisServers = NilMap THEN "makeMap" ELSE "lookup"]
    /\ overlapped' = (overlapped \/ \E q \in Requests : q # r /\ InFlight(q))
    /\ UNCHANGED <<AnubisServers, mNext, Target, servers, delegated,
                   outcome, ret, fatal, rvars>>

\* line 97: m.AnubisServers = make(map[string]*libanubis.Server)
MakeMap(r) ==
    /\ ~fatal
    /\ pc[r] = "makeMap"
    /\ AnubisServers' = EmptyMap
    /\ pc' = [pc EXCEPT ![r] = "lookup"]
    /\ UNCHANGED <<mNext, Target, servers, host, next, delegated,
                   outcome, ret, overlapped, fatal, rvars>>

\* Nothing in lines 93-103 and 165-169 waits: a request at the lookup of line
\* 100, at the assignment of line 168 or at the call of line 169 runs as soon
\* as its goroutine is scheduled, whatever the other requests are doing.
LookupReady(r) == ~fatal /\ pc[r] = "lookup"

SetNextReady(r) == ~fatal /\ pc[r] = "created"

\* DelegateReady with the map read under a lock that a request holds for the
\* whole of its construction (lines 107-131)
DelegateReady_Locked(r) ==
    /\ ~fatal
    /\ pc[r] = "delegate"
    /\ \A q \in Requests : pc[q] \notin {"new", "store"}

DelegateReady(r) == ~fatal /\ pc[r] = "delegate"

\* Lookup that never finds the existing server
Lookup_NeverFound(r) ==
    /\ ~fatal
    /\ pc[r] = "lookup"
    /\ pc' = [pc EXCEPT ![r] = "new"]
    /\ UNCHANGED <<AnubisServers, mNext, Target, servers, host, next,
                   delegated, outcome, ret, overlapped, fatal, rvars>>

\* lines 100-105: if server := m.AnubisServers[domain]; server != nil { return nil }
Lookup(r) ==
    /\ LookupReady(r)
    /\ pc' = [pc EXCEPT ![r] = IF AnubisServers[domain(r)] # NilServer THEN "created" ELSE "new"]
    /\ UNCHANGED <<AnubisServers, mNext, Target, servers, host, next,
                   delegated, outcome, ret, overlapped, fatal, rvars>>

\* lines 107-129, libanubis.New returns a server: a new object, with
\* CookieDomain: domain
NewOk(r) ==
    /\ ~fatal
    /\ pc[r] = "new"
    /\ servers' = [servers EXCEPT ![r] = "ok"]
    /\ pc' = [pc EXCEPT ![r] = "store"]
    /\ UNCHANGED <<AnubisServers, mNext, Target, host, next, delegated, outcome,
                   ret, overlapped, fatal, rvars>>

\* NewFail storing the result of libanubis.New before it tests err
NewFail_StoreFirst(r) ==
    /\ ~fatal
    /\ pc[r] = "new"
    /\ servers' = [servers EXCEPT ![r] = "err"]
    /\ AnubisServers' = [AnubisServers EXCEPT ![domain(r)] = anubisServer(r)]
    /\ ret' = [ret EXCEPT ![r] = "createErr"]
    /\ pc' = [pc EXCEPT ![r] = "done"]
    /\ UNCHANGED <<mNext, Target, host, next, delegated,
                   outcome, overlapped, fatal, rvars>>

\* NewFail with ServeHTTP logging the error and carrying on
NewFail_Swallowed(r) ==
    /\ ~fatal
    /\ pc[r] = "new"
    /\ servers' = [servers EXCEPT ![r] = "err"]
    /\ pc' = [pc EXCEPT ![r] = "created"]
    /\ UNCHANGED <<AnubisServers, mNext, Target, host, next, delegated,
                   outcome, ret, overlapped, fatal, rvars>>

\* lines 107-129 and 161-164, libanubis.New returns an error:
\* CreateAnubisServer returns it without writing the map, and ServeHTTP logs
\* it and returns it
NewFail(r) ==
    /\ ~fatal
    /\ pc[r] = "new"
    /\ servers' = [servers EXCEPT ![r] = "err"]
    /\ ret' = [ret EXCEPT ![r] = "createErr"]
    /\ pc' = [pc EXCEPT ![r] = "done"]
    /\ UNCHANGED <<AnubisServers, mNext, Target, host, next, delegated,
                   outcome, overlapped, fatal, rvars>>

\* lines 131-133: m.AnubisServers[domain] = anubisServer; return nil
Store(r) ==
    /\ ~fatal
    /\ pc[r] = "store"
    /\ AnubisServers' = [AnubisServers EXCEPT ![domain(r)] = anubisServer(r)]
    /\ pc' = [pc EXCEPT ![r] = "created"]
    /\ UNCHANGED <<mNext, Target, servers, host, next, delegated,
                   outcome, ret, overlapped, fatal, rvars>>

\* lines 161-168: CreateAnubisServer returned nil; m.Next = next
SetNext(r) ==
    /\ SetNextReady(r)
    /\ mNext' = next[r]
    /\ pc' = [pc EXCEPT ![r] = "delegate"]
    /\ UNCHANGED <<AnubisServers, Target, servers, host, next,
                   delegated, outcome, ret, overlapped, fatal, rvars>>

\* line 169: m.AnubisServers[domain].ServeHTTP(w, r).  A nil entry makes the
\* method call dereference a nil *Server: the goroutine panics.
Delegate(r) ==
    /\ DelegateReady(r)
    /\ IF AnubisServers[domain(r)] = NilServer
       THEN /\ ret' = [ret EXCEPT ![r] = "panic"]
            /\ pc' = [pc EXCEPT ![r] = "done"]
            /\ UNCHANGED delegated
       ELSE /\ delegated' = [delegated EXCEPT ![r] = AnubisServers[domain(r)]]
            /\ pc' = [pc EXCEPT ![r] = "engine"]
            /\ UNCHANGED ret
    /\ UNCHANGED <<AnubisServers, mNext, Target, servers, host, next,
                   outcome, overlapped, fatal, rvars>>

\* line 169-170: the challenge engine answers the request itself (challenge
\* page, robots.txt, ...) without calling Options.Next; ServeHTTP returns nil
EngineChallenge(r) ==
    /\ ~fatal
    /\ pc[r] = "engine"
    /\ outcome' = [outcome EXCEPT ![r].kind = "challenge"]
    /\ ret' = [ret EXCEPT ![r] = "nil"]
    /\ pc' = [pc EXCEPT ![r] = "done"]
    /\ UNCHANGED <<AnubisServers, mNext, Target, servers, host, next,
                   delegated, overlapped, fatal, rvars>>

\* NextClosure with the test of m.Target inverted
NextClosure_Inverted(r, e) ==
    /\ ~fatal
    /\ pc[r] = "engine"
    /\ IF Target = NIL
       THEN outcome' = [outcome EXCEPT ![r].passed = TRUE,
                                       ![r].kind = "redirect",
                                       ![r].location = Target,
                                       ![r].status = StatusTemporaryRedirect]
       ELSE outcome' = [outcome EXCEPT ![r].passed = TRUE,
                                       ![r].kind = "downstream",
                                       ![r].handler = mNext,
                                       ![r].err = e]
    /\ ret' = [ret EXCEPT ![r] = "nil"]
    /\ pc' = [pc EXCEPT ![r] = "done"]
    /\ UNCHANGED <<AnubisServers, mNext, Target, servers, host, next,
                   delegated, overlapped, fatal, rvars>>

\* lines 108-120 and 170: the challenge engine lets the request pass and calls
\* Options.Next, the closure: it redirects to *m.Target when m.Target is set,
\* otherwise it calls m.Next.ServeHTTP(w, r), whose error e it logs and drops;
\* ServeHTTP returns nil
NextClosure(r, e) ==
    /\ ~fatal
    /\ pc[r] = "engine"
    /\ IF Target # NIL
       THEN outcome' = [outcome EXCEPT ![r].passed = TRUE,
                                       ![r].kind = "redirect",
                                       ![r].location = Target,
                                       ![r].status = StatusTemporaryRedirect]
       ELSE outcome' = [outcome EXCEPT ![r].passed = TRUE,
                                       ![r].kind = "downstream",
                                       ![r].handler = mNext,
                                       ![r].err = e]
    /\ ret' = [ret EXCEPT ![r] = "nil"]
    /\ pc' = [pc EXCEPT ![r] = "done"]
    /\ UNCHANGED <<AnubisServers, mNext, Target, servers, host, next,
                   delegated, overlapped, fatal, rvars>>

\* The map is accessed without a lock.  When one goroutine is about to write
\* it (line 131) while another is about to read or write it (lines 100, 131,
\* 169), the Go runtime may detect the concurrent access and abort the
\* process ("fatal error: concurrent map writes" / "concurrent map read and
\* map write"); it may also not detect it, which the other actions cover.
RuntimeThrow ==
    /\ ~fatal
    /\ \E r, q \in Requests :
          /\ r # q
          /\ pc[r] = "store"
          /\ pc[q] \in {"lookup", "store", "delegate"}
    /\ fatal' = TRUE
    /\ UNCHANGED <<AnubisServers, mNext, Target, servers, pc, host, next, delegated, outcome, ret, overlapped, rvars>>

Next ==
    \/ \E r \in Requests, h \in Hosts, n \in Handlers : Arrive(r, h, n)
    \/ \E r \in Requests : MakeMap(r)
    \/ \E r \in Requests : Lookup(r)
    \/ \E r \in Requests : NewOk(r)
    \/ \E r \in Requests : NewFail(r)
    \/ \E r \in Requests : Store(r)
    \/ \E r \in Requests : SetNext(r)
    \/ \E r \in Requests : Delegate(r)
    \/ \E r \in Requests : EngineChallenge(r)
    \/ \E r \in Requests, e \in BOOLEAN : NextClosure(r, e)
    \/ RuntimeThrow

Spec == Init /\ [][Next]_vars

----------------------------------------------------------------------------
(* The resolver applied to every bounded host string *)

InitResolve ==
    /\ AnubisServers = NilMap
    /\ mNext = NIL
    /\ Target = NIL
    /\ servers = [r \in Requests |-> "none"]
    /\ pc = [r \in Requests |-> "idle"]
    /\ host = [r \in Requests |-> <<>>]
    /\ next = [r \in Requests |-> NIL]
    /\ delegated = [r \in Requests |-> NilServer]
    /\ outcome = [r \in Requests |-> NoOutcome]
    /\ ret = [r \in Requests |-> "none"]
    /\ overlapped = FALSE
    /\ fatal = FALSE
    /\ \E k \in 0 .. MaxHostLen : rIn \in StringsOfLen(k)
    /\ rStage = "input"
    /\ rHost = <<>>
    /\ rPort = <<>>
    /\ rSub = <<>>
    /\ rDomain = <<>>

\* line 88: host, _ := splitHostPort(r.Host)
ResolveSplitHostPort ==
    /\ rStage = "input"
    /\ IF splitHostPortInRange(rIn)
       THEN /\ rHost' = splitHostPort(rIn).host
            /\ rPort' = splitHostPort(rIn).port
            /\ rStage' = "split"
       ELSE /\ rStage' = "panic"
            /\ UNCHANGED <<rHost, rPort>>
    /\ UNCHANGED <<mvars, rIn, rSub, rDomain>>

\* lines 89-90: _, domain := splitSubDomainDomain(host); return domain
ResolveSplitSubDomainDomain ==
    /\ rStage = "split"
    /\ IF splitSubDomainDomainInRange(rHost)
       THEN /\ rSub' = splitSubDomainDomain(rHost).subdomain
            /\ rDomain' = splitSubDomainDomain(rHost).domain
            /\ rStage' = "domain"
       ELSE /\ rStage' = "panic"
            /\ UNCHANGED <<rSub, rDomain>>
    /\ UNCHANGED <<mvars, rIn, rHost, rPort>>

NextResolve ==
    \/ ResolveSplitHostPort
    \/ ResolveSplitSubDomainDomain

SpecResolve == InitResolve /\ [][NextResolve]_vars

----------------------------------------------------------------------------
(* Vocabulary of the properties *)

\* the requests to which libanubis.New returned a server for domain d
ConstructedFor(d) == {r \in Requests : servers[r] = "ok" /\ domain(r) = d}

\* the requests that called libanubis.New for domain d
NewCallsFor(d) == {r \in Requests : servers[r] # "none" /\ domain(r) = d}

IsAsciiDigit(c) == c \in 48 .. 57

IsHexDigit(c) == c \in (48 .. 57) \cup (65 .. 70) \cup (97 .. 102)

AllDigits(s) == \A i \in 1 .. Len(s) : IsAsciiDigit(s[i])

\* s ends in ':' followed by zero or more ASCII digits
HasTrailingPort(s) ==
    \E i \in 1 .. Len(s) : s[i] = 58 /\ \A j \in i + 1 .. Len(s) : IsAsciiDigit(s[j])

\* the text of an IPv6 literal: hex digits, ':' and (embedded IPv4) '.', with a ':'
IsIPv6Literal(s) ==
    /\ \A i \in 1 .. Len(s) : IsHexDigit(s[i]) \/ s[i] \in {58, 46}
    /\ \E i \in 1 .. Len(s) : s[i] = 58

\* the positions k of rIn where rIn = h ++ ":" ++ digits, digits non-empty
PortCuts == {k \in 1 .. Len(rIn) - 1 : rIn[k] = 58 /\ AllDigits(SubSeq(rIn, k + 1, Len(rIn)))}

----------------------------------------------------------------------------
(* Properties *)

\* C1: two requests never both construct an instance for the same domain:
\* for every domain at most one call of libanubis.New has returned a server.
C1_SingleConstruction ==
    \A d \in Domains : Cardinality(ConstructedFor(d)) <= 1

\* C2: any two requests whose hosts resolve to the same apex domain are
\* delegated to the same server object.
C2_SameInstance ==
    \A r, q \in Requests :
        (delegated[r] # NilServer /\ delegated[q] # NilServer /\ domain(r) = domain(q))
            => delegated[r] = delegated[q]

\* C3: a failed construction leaves the registry as it was, every entry
\* included, so that with no request running beside it the domain has no
\* entry afterwards; the registry never holds the result of a failed
\* construction; and a request that finds no entry for its domain (as after a
\* failure) goes on to a new construction instead of failing from a cache.
C3_FailureNotCached ==
    /\ [][\A r \in Requests :
            /\ (pc[r] = "new" /\ ret'[r] = "createErr") =>
                  /\ AnubisServers' = AnubisServers
                  /\ ~overlapped => AnubisServers'[domain(r)] = NilServer
            /\ (pc[r] = "lookup" /\ pc'[r] # "lookup" /\ AnubisServers[domain(r)] = NilServer) =>
                  (pc'[r] = "new" /\ ret'[r] = "none")]_vars
    /\ [](\A d \in DOMAIN AnubisServers :
            AnubisServers[d] # NilServer => servers[AnubisServers[d]] = "ok")

\* a construction failed, the domain has no entry, and a later request for the
\* same domain is constructing again
C3_Witness ==
    \E r, q \in Requests :
        /\ r # q
        /\ ret[r] = "createErr"
        /\ pc[q] = "new"
        /\ domain(q) = domain(r)
        /\ AnubisServers[domain(r)] = NilServer

\* C4: a request whose construction failed has returned the construction
\* error from ServeHTTP, was delegated to no server, and got neither a
\* redirect nor the downstream handler.
C4_CreateErrorTerminal ==
    \A r \in Requests :
        servers[r] = "err" =>
            /\ pc[r] = "done"
            /\ ret[r] = "createErr"
            /\ delegated[r] = NilServer
            /\ outcome[r] = NoOutcome

\* a construction failed and its request has returned
C4_Witness ==
    \E r \in Requests : servers[r] = "err" /\ ret[r] = "createErr"

\* C5: when no target is configured and the downstream handler returned an
\* error for a request that passed, ServeHTTP returns an error for it.
C5_DownstreamErrorPropagated ==
    \A r \in Requests :
        (pc[r] = "done" /\ outcome[r].kind = "downstream" /\ outcome[r].err)
            => ret[r] \notin {"nil", "none"}

\* C6: with a target configured, every request that passed the challenge got
\* a redirect to exactly the target, and no request reached a downstream
\* handler.
C6_TargetRedirectsAll ==
    Target # NIL =>
        \A r \in Requests :
            /\ outcome[r].kind # "downstream"
            /\ outcome[r].handler = NIL
            /\ outcome[r].passed => (outcome[r].kind = "redirect" /\ outcome[r].location = Target)

\* two requests of different domains both passed and were redirected
C6_Witness ==
    /\ Target # NIL
    /\ \E r, q \in Requests :
          /\ domain(r) # domain(q)
          /\ outcome[r].passed /\ outcome[r].kind = "redirect"
          /\ outcome[q].passed /\ outcome[q].kind = "redirect"

\* C7: a request that reached a downstream handler reached the handler that
\* was passed to ServeHTTP with that request.
C7_OwnDownstream ==
    \A r \in Requests :
        outcome[r].kind = "downstream" => outcome[r].handler = next[r]

\* C8: when no two requests overlapped and the first construction for a
\* domain (that of the earliest request that called libanubis.New for it)
\* succeeded, libanubis.New was called exactly once for that domain.
C8_SequentialOneConstruction ==
    \A d \in Domains :
        (/\ ~overlapped
         /\ NewCallsFor(d) # {}
         /\ \A r \in NewCallsFor(d) : (\A q \in NewCallsFor(d) : r <= q) => servers[r] = "ok")
            => Cardinality(NewCallsFor(d)) = 1

\* every request was for one domain, none overlapped, all were delegated
C8_Witness ==
    /\ ~overlapped
    /\ NumRequests >= 2
    /\ \A r \in Requests : pc[r] = "done" /\ delegated[r] # NilServer
    /\ \A r, q \in Requests : domain(r) = domain(q)
    /\ Cardinality({r \in Requests : servers[r] = "ok"}) = 1

\* C9: when the input is h ++ ":" ++ digits (digits non-empty) and h has no
\* trailing port, the resolved domain is the domain resolved from h.
C9_PortIgnored ==
    rStage = "domain" =>
        \A k \in PortCuts :
            ~HasTrailingPort(SubSeq(rIn, 1, k - 1))
                => rDomain = DomainFromRequest(SubSeq(rIn, 1, k - 1))

\* a host with a subdomain and a port was resolved
C9_Witness ==
    /\ rStage = "domain"
    /\ \E k \in PortCuts : ~HasTrailingPort(SubSeq(rIn, 1, k - 1))
    /\ rSub # <<>>
    /\ rDomain # <<>>

\* C10: when the input is "[" ++ L ++ "]:" ++ digits with L an IPv6 literal,
\* the host handed to splitSubDomainDomain is exactly L.
C10_BracketsAndPortStripped ==
    rStage \in {"split", "domain"} =>
        \A k \in PortCuts :
            (/\ k >= 3
             /\ rIn[1] = 91
             /\ rIn[k - 1] = 93
             /\ IsIPv6Literal(SubSeq(rIn, 2, k - 2)))
                => rHost = SubSeq(rIn, 2, k - 2)

\* "[::1]:" ++ digit was split
C10_Witness ==
    /\ rStage = "split"
    /\ Len(rIn) = 7
    /\ SubSeq(rIn, 1, 6) = <<91, 58, 58, 49, 93, 58>>
    /\ IsAsciiDigit(rIn[7])
    /\ rHost = <<58, 58, 49>>

\* the positions of the dots of s
DotsOf(s) == {i \in 1 .. Len(s) : s[i] = 46}

\* s is wrapped in "[" and "]"
IsBracketed(s) == Len(s) >= 2 /\ s[1] = 91 /\ s[Len(s)] = 93

\* s without the brackets that wrap it, if any
Unbracketed(s) == IF IsBracketed(s) THEN SubSeq(s, 2, Len(s) - 1) ELSE s

\* the position of the second-to-last dot of s, which has at least two
SecondToLastDot(s) ==
    CHOOSE i \in DotsOf(s) : Cardinality({j \in DotsOf(s) : j > i}) = 1

\* C11: for a port-free, bracket-free host, the resolved domain is the whole
\* host when it has at most one dot, and the text after the second-to-last
\* dot when it has two or more.
C11_TwoLabelApex ==
    (rStage = "domain" /\ ~HasTrailingPort(rIn) /\ ~IsBracketed(rIn)) =>
        IF Cardinality(DotsOf(rIn)) <= 1
        THEN rDomain = rIn
        ELSE rDomain = SubSeq(rIn, SecondToLastDot(rIn) + 1, Len(rIn))

\* "a.a.a.a" was resolved to "a.a"
C11_Witness ==
    /\ rStage = "domain"
    /\ rIn = <<97, 46, 97, 46, 97, 46, 97>>
    /\ rDomain = <<97, 46, 97>>

\* C14: the input loses a trailing segment as its port exactly when that
\* segment is ':' followed by zero or more ASCII digits; when the text after
\* the last colon has a non-digit (or there is no colon) port stripping
\* leaves the input as it is, and only wrapping brackets are removed.
C14_PortOnlyDigits ==
    rStage \in {"split", "domain"} =>
        IF HasTrailingPort(rIn)
        THEN LET k == CHOOSE i \in 1 .. Len(rIn) :
                          rIn[i] = 58 /\ AllDigits(SubSeq(rIn, i + 1, Len(rIn)))
             IN  /\ rHost = Unbracketed(SubSeq(rIn, 1, k - 1))
                 /\ rPort = SubSeq(rIn, k + 1, Len(rIn))
        ELSE /\ rHost = Unbracketed(rIn)
             /\ rPort = <<>>

\* "[::1]" was split: it kept its colons and lost its brackets
C14_Witness ==
    /\ rStage = "split"
    /\ rIn = <<91, 58, 58, 49, 93>>
    /\ rHost = <<58, 58, 49>>
    /\ rPort = <<>>

\* C19: DomainFromRequest never panics, whatever the input, and the domain it
\* returns has at most one dot and is a suffix of the host left by port and
\* bracket stripping.
C19_TotalOneDotSuffix ==
    /\ rStage # "panic"
    /\ rStage = "domain" =>
          /\ Cardinality(DotsOf(rDomain)) <= 1
          /\ Len(rDomain) <= Len(rHost)
          /\ rDomain = SubSeq(rHost, Len(rHost) - Len(rDomain) + 1, Len(rHost))

\* "[a.a.a]" was resolved to "a.a"
C19_Witness ==
    /\ rStage = "domain"
    /\ rIn = <<91, 97, 46, 97, 46, 97, 93>>
    /\ rHost = <<97, 46, 97, 46, 97>>
    /\ rDomain = <<97, 46, 97>>

\* request r is on its way to delegation (lines 100-169) and the registry
\* holds a server for its domain, while a request of another domain is
\* inside its construction (lines 107-131)
ReadPathBesideCreation(r) ==
    /\ ~fatal
    /\ pc[r] \in {"lookup", "created", "delegate"}
    /\ AnubisServers[domain(r)] # NilServer
    /\ \E q \in Requests :
          q # r /\ pc[q] \in {"new", "store"} /\ domain(q) # domain(r)

C13_Redirect302 ==
    \A r \in Requests :
        outcome[r].kind = "redirect" => outcome[r].status = 302

\* the entry of domain d in the registry, a nil map having none
EntryOf(d) == IF AnubisServers = NilMap THEN NilServer ELSE AnubisServers[d]

\* C15: once the registry maps a domain to a server, it maps that domain to
\* that same server after every step.
C15_EntriesPermanent ==
    [][\A d \in Domains :
          EntryOf(d) # NilServer => (AnubisServers' # NilMap /\ AnubisServers'[d] = EntryOf(d))]_vars

\* C16: every server in the registry under key d was constructed with
\* CookieDomain d, and every request was delegated only to a server whose
\* CookieDomain is the request's apex domain.
C16_NoCrossTenant ==
    /\ \A d \in DOMAIN AnubisServers :
          AnubisServers[d] # NilServer => CookieDomain(AnubisServers[d]) = d
    /\ \A r \in Requests :
          delegated[r] # NilServer => CookieDomain(delegated[r]) = domain(r)

\* a request was delegated to the server another request constructed from a
\* different host of the same domain, and the registry holds two servers
C16_Witness ==
    /\ \E r, q \in Requests : r # q /\ delegated[r] = q /\ host[r] # host[q]
    /\ \E d \in DOMAIN AnubisServers : AnubisServers[d] # NilServer

\* C17: a step of a request whose apex domain is A leaves the entry of every
\* domain B # A as it was and adds at most the entry keyed A; and the
\* registry has entries only for apex domains of requests received so far.
C17_FrameOtherDomains ==
    /\ [][\A r \in Requests :
            pc'[r] # pc[r] =>
                \A B \in Domains :
                    B # DomainFromRequest(host'[r]) =>
                        (IF AnubisServers' = NilMap THEN NilServer ELSE AnubisServers'[B])
                            = EntryOf(B)]_vars
    /\ [](\A d \in Domains :
            EntryOf(d) # NilServer => \E r \in Requests : pc[r] # "idle" /\ domain(r) = d)

\* C18: a request at the delegation step (line 169) finds a non-nil server
\* for its apex domain in the registry; no request panics on a nil entry.
C18_DelegateFindsServer ==
    \A r \in Requests :
        /\ pc[r] = "delegate" => AnubisServers[domain(r)] # NilServer
        /\ ret[r] # "panic"

TypeOK ==
    /\ AnubisServers = NilMap \/ AnubisServers \in [Domains -> 0 .. NumRequests]
    /\ mNext \in Handlers \cup {NIL}
    /\ servers \in [Requests -> {"none", "ok", "err"}]
    /\ fatal \in BOOLEAN

====
